---------------------------- MODULE Spec2Model ----------------------------
(***************************************************************************)
(* A model of jpg2pdf (src/jpg2pdf.py): one run of main() over an input    *)
(* directory.  The run collects the eligible images, translates an         *)
(* optional README.md to a story of flowables and to a page set, lays      *)
(* every image out on a page of its own, and merges the page sets.         *)
(*                                                                         *)
(* Strings are sequences of atoms.  An atom that comes from the input is   *)
(* one character; a literal the program emits itself ("<b>", "&amp;",      *)
(* "</link>") is one atom.  Lengths in points are exact rationals          *)
(* [n |-> numerator, d |-> denominator], kept in lowest terms; the         *)
(* program computes them in binary floating point.                         *)
(***************************************************************************)
EXTENDS Integers, Sequences, FiniteSets, TLC

VARIABLES
    subdir,       \* the input: [is_dir, entries, readme]
    pc,           \* position of main()
    exit,         \* how the run ended: "none" while running
    image_paths,  \* main: the sorted eligible image files
    story,        \* markdown_to_pdf: the flowables built so far
    k,            \* markdown_to_pdf: index of the next child of the soup
    readme_pdf,   \* main: the page set markdown_to_pdf returned
    i,            \* images_to_pdf: index of the next image
    written,      \* images_to_pdf: images placed so far
    canvas,       \* images_to_pdf: pages shown on the canvas so far
    images_pdf,   \* main: the page set images_to_pdf returned
    parts,        \* main: the page sets to merge
    output,       \* the pages of the written file
    output_written, \* whether the output file was written
    total_pages   \* the page count main reports (-1: none reported)

vars == <<subdir, pc, exit, image_paths, story, k, readme_pdf, i, written,
          canvas, images_pdf, parts, output, output_written, total_pages>>

---------------------------------------------------------------------------
(* Bounds of the model.                                                    *)

MaxFiles == 2

MaxPx == 20

MaxKids == 3

MaxReadmePages == 2

---------------------------------------------------------------------------
(* Page geometry (points).                                                 *)

PAGE_W == 612

PAGE_H == 792

MARGIN == 54

CONTENT_W == PAGE_W - 2 * MARGIN

CONTENT_H == PAGE_H - 2 * MARGIN

---------------------------------------------------------------------------
(* Exact rational arithmetic, standing for the program's float arithmetic. *)

RECURSIVE Gcd(_, _)
Gcd(a, b) == IF b = 0 THEN a ELSE Gcd(b, a % b)

Abs(x) == IF x < 0 THEN -x ELSE x

Rat(n, d) ==
    LET g == Gcd(Abs(n), Abs(d))
        s == IF d < 0 THEN -1 ELSE 1
    IN  [n |-> (s * n) \div g, d |-> (s * d) \div g]

RInt(x) == [n |-> x, d |-> 1]

RAdd(a, b) == Rat(a.n * b.d + b.n * a.d, a.d * b.d)

RSub(a, b) == Rat(a.n * b.d - b.n * a.d, a.d * b.d)

RMul(a, b) == Rat(a.n * b.n, a.d * b.d)

RDiv(a, b) == Rat(a.n * b.d, a.d * b.n)

RLe(a, b) == a.n * b.d <= b.n * a.d

RLt(a, b) == a.n * b.d < b.n * a.d

REq(a, b) == a.n * b.d = b.n * a.d

---------------------------------------------------------------------------
(* Markup nodes (the tree BeautifulSoup returns).  A NavigableString is a  *)
(* node named "#text"; a Tag has a name, children and, for <a>, an href.   *)

Text(s) == [name |-> "#text", text |-> s, href |-> <<>>, children |-> <<>>]

Tag(n, ch) == [name |-> n, text |-> <<>>, href |-> <<>>, children |-> ch]

Link(h, ch) == [name |-> "a", text |-> <<>>, href |-> h, children |-> ch]

IsStr(node) == node.name = "#text"

\* hasattr(child, "name"): a NavigableString has the attribute too (None).
HasName(node) == TRUE

Whitespace == {" ", "\n"}

RECURSIVE LStrip(_)
LStrip(s) ==
    IF s # <<>> /\ Head(s) \in Whitespace THEN LStrip(Tail(s)) ELSE s

RECURSIVE RStrip(_)
RStrip(s) ==
    IF s # <<>> /\ s[Len(s)] \in Whitespace
    THEN RStrip(SubSeq(s, 1, Len(s) - 1)) ELSE s

Strip(s) == RStrip(LStrip(s))

\* str.replace(old, new) for a one-character old.
Replace(s, old, new) ==
    [j \in 1..Len(s) |-> IF s[j] = old THEN new ELSE s[j]]

_escape(text) ==
    Replace(Replace(Replace(text, "&", "&amp;"), "<", "&lt;"), ">", "&gt;")

RECURSIVE get_text(_), get_text_all(_)
get_text(node) ==
    IF IsStr(node) THEN node.text ELSE get_text_all(node.children)

get_text_all(s) ==
    IF s = <<>> THEN <<>> ELSE get_text(Head(s)) \o get_text_all(Tail(s))

\* get_text(strip=True): every string stripped, the empty ones left out.
RECURSIVE get_text_strip(_), get_text_strip_all(_)
get_text_strip(node) ==
    IF IsStr(node) THEN Strip(node.text) ELSE get_text_strip_all(node.children)

get_text_strip_all(s) ==
    IF s = <<>> THEN <<>>
    ELSE get_text_strip(Head(s)) \o get_text_strip_all(Tail(s))

\* The descendants of a node in document order.
RECURSIVE Descendants(_), DescendantsAll(_)
Descendants(node) == DescendantsAll(node.children)

DescendantsAll(s) ==
    IF s = <<>> THEN <<>>
    ELSE <<Head(s)>> \o Descendants(Head(s)) \o DescendantsAll(Tail(s))

IsNamed(names, node) == node.name \in names

find_all(node, names) ==
    SelectSeq(Descendants(node), LAMBDA d : IsNamed(names, d))

\* find(name): the sequence holding the first match, or <<>> for None.
find(node, name) ==
    LET all == find_all(node, {name})
    IN  IF all = <<>> THEN <<>> ELSE <<Head(all)>>

RECURSIVE inline_text(_), inline_child(_), inline_parts(_)
inline_child(child) ==
    IF IsStr(child) THEN _escape(child.text)
    ELSE CASE child.name \in {"strong", "b"} ->
                <<"<b>">> \o _escape(get_text(child)) \o <<"</b>">>
           [] child.name \in {"em", "i"} ->
                <<"<i>">> \o _escape(get_text(child)) \o <<"</i>">>
           [] child.name = "code" ->
                <<"<font name='Courier'>">> \o _escape(get_text(child))
                    \o <<"</font>">>
           [] child.name = "a" ->
                LET href == child.href
                    text == _escape(get_text(child))
                IN  <<"<link href=\"">> \o href \o <<"\" color=\"blue\">">>
                        \o text \o <<"</link>">>
           [] child.name = "br" -> <<"<br/>">>
           [] OTHER -> inline_text(child)

inline_parts(s) ==
    IF s = <<>> THEN <<>> ELSE inline_child(Head(s)) \o inline_parts(Tail(s))

inline_text(el) ==
    IF IsStr(el) THEN _escape(el.text) ELSE inline_parts(el.children)

---------------------------------------------------------------------------
(* Flowables of the story.                                                 *)

Paragraph(text, style) == [kind |-> "Paragraph", text |-> text, style |-> style]

HRFlowable == [kind |-> "HRFlowable", text |-> <<>>, style |-> "hr"]

Preformatted(src, style) == [kind |-> "Preformatted", text |-> src, style |-> style]

\* The keys of the dict _rl_styles returns.
Styles == {"h1", "h2", "h3", "h4", "p", "li", "code", "blockquote", "normal"}

Headings == {"h1", "h2", "h3", "h4", "h5", "h6"}

\* tag[:2] of a heading tag is the tag itself.
HeadingLevel(tag) == IF tag \in Styles THEN tag ELSE "h4"

\* The bullet character U+2022, one atom.
Bullet == "U+2022"

Digits == <<"0", "1", "2", "3", "4", "5", "6", "7", "8", "9">>

\* str(n) of a natural number.
RECURSIVE Decimal(_)
Decimal(n) ==
    IF n < 10 THEN <<Digits[n + 1]>>
    ELSE Decimal(n \div 10) \o <<Digits[(n % 10) + 1]>>

\* f"{i}.", the bullet of an item of an ordered list.
OrdinalBullet(n) == Decimal(n) \o <<".">>

RECURSIVE Join(_, _)
Join(cells, sep) ==
    IF cells = <<>> THEN <<>>
    ELSE IF Len(cells) = 1 THEN Head(cells)
    ELSE Head(cells) \o sep \o Join(Tail(cells), sep)

TableRow(row) ==
    LET tds == find_all(row, {"th", "td"})
        cells == [j \in 1..Len(tds) |-> _escape(get_text_strip(tds[j]))]
    IN  Paragraph(Join(cells, <<"  |  ">>), "p")

QuoteBlocks(child) ==
    IF HasName(child)
    THEN LET text == inline_text(child)
         IN  IF Strip(text) # <<>> THEN <<Paragraph(text, "blockquote")>>
             ELSE <<>>
    ELSE <<>>

RECURSIVE _node_to_story(_, _, _), ListItems(_, _, _, _), NestedLists(_, _),
          Recurse(_, _, _), Quotes(_)
\* The flowables one call appends to the story.  parent is node.parent.name.
_node_to_story(node, parent, list_depth) ==
    IF IsStr(node) THEN <<>>
    ELSE LET tag == node.name IN
      CASE tag \in Headings ->
             <<Paragraph(inline_text(node), HeadingLevel(tag))>>
        [] tag = "p" ->
             LET text == inline_text(node)
             IN  IF Strip(text) # <<>> THEN <<Paragraph(text, "p")>> ELSE <<>>
        [] tag = "hr" -> <<HRFlowable>>
        [] tag \in {"ul", "ol"} -> ListItems(node, tag, 0, list_depth)
        [] tag = "li" ->
             <<Paragraph(<<Bullet, "  ">> \o inline_text(node), "li")>>
        [] tag = "pre" ->
             LET code_el == find(node, "code")
                 src == IF code_el # <<>> THEN get_text(code_el[1])
                        ELSE get_text(node)
             IN  <<Preformatted(src, "code")>>
        [] tag = "code" /\ parent # "pre" ->
             <<Paragraph(<<"<font name='Courier'>">> \o _escape(get_text(node))
                            \o <<"</font>">>, "p")>>
        [] tag = "blockquote" -> Quotes(node.children)
        [] tag = "table" ->
             LET rows == find_all(node, {"tr"})
             IN  [j \in 1..Len(rows) |-> TableRow(rows[j])]
        [] OTHER -> Recurse(node.children, tag, list_depth)

\* The loop over enumerate(node.children) of a list, from position n on.
ListItems(node, tag, n, list_depth) ==
    IF n >= Len(node.children) THEN <<>>
    ELSE LET child == node.children[n + 1]
             rest == ListItems(node, tag, n + 1, list_depth)
         IN  IF HasName(child) /\ child.name = "li"
             THEN LET bullet == IF tag = "ul" THEN <<Bullet>> ELSE OrdinalBullet(n)
                      text == inline_text(child)
                  IN  <<Paragraph(bullet \o <<"  ">> \o text, "li")>>
                          \o NestedLists(child.children, list_depth) \o rest
             ELSE rest

\* The loop over the children of a list item: its nested lists.
NestedLists(subs, list_depth) ==
    IF subs = <<>> THEN <<>>
    ELSE LET sub == Head(subs)
         IN  (IF HasName(sub) /\ sub.name \in {"ul", "ol"}
              THEN _node_to_story(sub, "li", list_depth + 1) ELSE <<>>)
                 \o NestedLists(Tail(subs), list_depth)

Recurse(children, tag, list_depth) ==
    IF children = <<>> THEN <<>>
    ELSE _node_to_story(Head(children), tag, list_depth)
            \o Recurse(Tail(children), tag, list_depth)

Quotes(children) ==
    IF children = <<>> THEN <<>>
    ELSE QuoteBlocks(Head(children)) \o Quotes(Tail(children))

---------------------------------------------------------------------------
(* The input directory and the image layout.                               *)

\* A directory entry: its path is stem + suffix, stems are distinct.  w and
\* h are the pixel size Image.open reports for it.
Entry(stem, suffix, is_file, w, h) ==
    [stem |-> stem, suffix |-> suffix, is_file |-> is_file, w |-> w, h |-> h]

\* str.lower() on the suffixes the model uses.
Lower(suffix) ==
    CASE suffix = ".JPG" -> ".jpg"
      [] suffix = ".Png" -> ".png"
      [] suffix = ".JPEG" -> ".jpeg"
      [] OTHER -> suffix

Eligible(p) == Lower(p.suffix) \in {".jpg", ".jpeg", ".png"} /\ p.is_file

\* sorted(paths): the directory's iteration order is arbitrary, the paths
\* compare as their stems do.
RECURSIVE sorted(_)
sorted(S) ==
    IF S = {} THEN <<>>
    ELSE LET m == CHOOSE p \in S : \A q \in S : p.stem <= q.stem
         IN  <<m>> \o sorted(S \ {m})

\* DisplaySize without the clamp to the content height.
DisplaySizeNoClamp(img_w_px, img_h_px) ==
    [w |-> RInt(CONTENT_W), h |-> RMul(RInt(CONTENT_W), Rat(img_h_px, img_w_px))]

\* The display size of an image of img_w_px x img_h_px pixels, both > 0.
DisplaySize(img_w_px, img_h_px) ==
    LET aspect == Rat(img_h_px, img_w_px)
        display_w == RInt(CONTENT_W)
        display_h == RMul(display_w, aspect)
    IN  IF RLt(RInt(CONTENT_H), display_h)
        THEN [w |-> RDiv(RInt(CONTENT_H), aspect), h |-> RInt(CONTENT_H)]
        ELSE [w |-> display_w, h |-> display_h]

\* Origin with the image at the left margin instead of centred.
OriginLeft(display_w, display_h) ==
    [x |-> RInt(MARGIN),
     y |-> RSub(RSub(RInt(PAGE_H), RInt(MARGIN)), display_h)]

\* The origin (x, y) of an image of the given display size.
Origin(display_w, display_h) ==
    [x |-> RAdd(RInt(MARGIN), RDiv(RSub(RInt(CONTENT_W), display_w), RInt(2))),
     y |-> RSub(RSub(RInt(PAGE_H), RInt(MARGIN)), display_h)]

\* The page c.drawImage and c.showPage add for an image.
ImagePage(img) ==
    LET size == DisplaySize(img.w, img.h)
        at == Origin(size.w, size.h)
    IN  [src |-> "image", path |-> img.stem, x |-> at.x, y |-> at.y,
         w |-> size.w, h |-> size.h]

\* Page number n of the document doc.build made of the README.
ReadmePage(n) ==
    [src |-> "readme", path |-> n, x |-> RInt(0), y |-> RInt(0),
     w |-> RInt(0), h |-> RInt(0)]

\* The page counts doc.build(story) can give: none for an empty story.
RenderPageCounts(s) == IF s = <<>> THEN {0} ELSE 1..MaxReadmePages

RECURSIVE Concat(_)
Concat(ps) ==
    IF ps = <<>> THEN <<>> ELSE Head(ps) \o Concat(Tail(ps))

\* MergeParts with the parts taken last to first.
MergePartsReversed(ps) ==
    Concat([j \in 1..Len(ps) |-> ps[Len(ps) + 1 - j]])

\* writer.add_page for every page of every part, in order.
MergeParts(ps) == Concat(ps)

RECURSIVE SumPages(_)
SumPages(ps) ==
    IF ps = <<>> THEN 0 ELSE Len(Head(ps)) + SumPages(Tail(ps))

---------------------------------------------------------------------------
(* The steps of main().                                                    *)

\* subdir.is_dir() is false.
NotADirectory ==
    /\ pc = "start"
    /\ ~subdir.is_dir
    /\ exit' = "not_a_directory"
    /\ pc' = "done"
    /\ UNCHANGED <<subdir, image_paths, story, k, readme_pdf, i, written,
                   canvas, images_pdf, parts, output, output_written,
                   total_pages>>

CollectImages(entries) == sorted({p \in entries : Eligible(p)})

\* NoImages without the exit: the run goes on with no image.
NoImagesIgnored ==
    /\ pc = "start"
    /\ subdir.is_dir
    /\ CollectImages(subdir.entries) = <<>>
    /\ image_paths' = <<>>
    /\ pc' = "readme"
    /\ UNCHANGED <<subdir, exit, story, k, readme_pdf, i, written, canvas,
                   images_pdf, parts, output, output_written, total_pages>>

NoImages ==
    /\ pc = "start"
    /\ subdir.is_dir
    /\ CollectImages(subdir.entries) = <<>>
    /\ image_paths' = <<>>
    /\ exit' = "no_images"
    /\ pc' = "done"
    /\ UNCHANGED <<subdir, story, k, readme_pdf, i, written, canvas,
                   images_pdf, parts, output, output_written, total_pages>>

FoundImages ==
    /\ pc = "start"
    /\ subdir.is_dir
    /\ CollectImages(subdir.entries) # <<>>
    /\ image_paths' = CollectImages(subdir.entries)
    /\ pc' = "readme"
    /\ UNCHANGED <<subdir, exit, story, k, readme_pdf, i, written, canvas,
                   images_pdf, parts, output, output_written, total_pages>>

ReadmeAbsent ==
    /\ pc = "readme"
    /\ ~subdir.readme.exists
    /\ pc' = "images"
    /\ UNCHANGED <<subdir, exit, image_paths, story, k, readme_pdf, i,
                   written, canvas, images_pdf, parts, output,
                   output_written, total_pages>>

\* markdown_to_pdf up to the loop over soup.children.
ReadmeBegin ==
    /\ pc = "readme"
    /\ subdir.readme.exists
    /\ story' = <<>>
    /\ k' = 1
    /\ pc' = "markdown"
    /\ UNCHANGED <<subdir, exit, image_paths, readme_pdf, i, written, canvas,
                   images_pdf, parts, output, output_written, total_pages>>

\* One turn of the loop over soup.children.
TranslateChild ==
    /\ pc = "markdown"
    /\ k <= Len(subdir.readme.soup)
    /\ story' = story \o _node_to_story(subdir.readme.soup[k], "[document]", 0)
    /\ k' = k + 1
    /\ UNCHANGED <<subdir, pc, exit, image_paths, readme_pdf, i, written,
                   canvas, images_pdf, parts, output, output_written,
                   total_pages>>

\* doc.build(story), and main appends the result to parts.
BuildReadme ==
    /\ pc = "markdown"
    /\ k > Len(subdir.readme.soup)
    /\ \E n \in RenderPageCounts(story) :
          /\ readme_pdf' = [j \in 1..n |-> ReadmePage(j)]
          /\ parts' = Append(parts, readme_pdf')
    /\ pc' = "images"
    /\ UNCHANGED <<subdir, exit, image_paths, story, k, i, written, canvas,
                   images_pdf, output, output_written, total_pages>>

\* SkipImage leaving the loop (break) instead of going on (continue).
SkipImageBreak ==
    /\ pc = "images"
    /\ i <= Len(image_paths)
    /\ (image_paths[i].w = 0 \/ image_paths[i].h = 0)
    /\ i' = Len(image_paths) + 1
    /\ UNCHANGED <<subdir, pc, exit, image_paths, story, k, readme_pdf,
                   written, canvas, images_pdf, parts, output,
                   output_written, total_pages>>

\* One turn of the loop of images_to_pdf over a zero-size image.
SkipImage ==
    /\ pc = "images"
    /\ i <= Len(image_paths)
    /\ (image_paths[i].w = 0 \/ image_paths[i].h = 0)
    /\ i' = i + 1
    /\ UNCHANGED <<subdir, pc, exit, image_paths, story, k, readme_pdf,
                   written, canvas, images_pdf, parts, output,
                   output_written, total_pages>>

\* One turn of the loop of images_to_pdf over any other image.
PlaceImage ==
    /\ pc = "images"
    /\ i <= Len(image_paths)
    /\ ~(image_paths[i].w = 0 \/ image_paths[i].h = 0)
    /\ canvas' = Append(canvas, ImagePage(image_paths[i]))
    /\ written' = written + 1
    /\ i' = i + 1
    /\ UNCHANGED <<subdir, pc, exit, image_paths, story, k, readme_pdf,
                   images_pdf, parts, output, output_written, total_pages>>

\* What images_to_pdf returns after its loop.
ImagesResult(n, pages) == IF n = 0 THEN <<>> ELSE pages

\* The end of images_to_pdf, and main appends a non-empty result to parts.
ImagesDone ==
    /\ pc = "images"
    /\ i > Len(image_paths)
    /\ images_pdf' = ImagesResult(written, canvas)
    /\ parts' = IF images_pdf' # <<>> THEN Append(parts, images_pdf') ELSE parts
    /\ pc' = "assemble"
    /\ UNCHANGED <<subdir, exit, image_paths, story, k, readme_pdf, i,
                   written, canvas, output, output_written, total_pages>>

NothingToWrite ==
    /\ pc = "assemble"
    /\ parts = <<>>
    /\ exit' = "nothing_to_write"
    /\ pc' = "done"
    /\ UNCHANGED <<subdir, image_paths, story, k, readme_pdf, i, written,
                   canvas, images_pdf, parts, output, output_written,
                   total_pages>>

WriteOutput ==
    /\ pc = "assemble"
    /\ parts # <<>>
    /\ output' = MergeParts(parts)
    /\ output_written' = TRUE
    /\ total_pages' = SumPages(parts)
    /\ exit' = "written"
    /\ pc' = "done"
    /\ UNCHANGED <<subdir, image_paths, story, k, readme_pdf, i, written,
                   canvas, images_pdf, parts>>

---------------------------------------------------------------------------
(* The inputs of the runs checked: directories and README trees.           *)

NoReadme == [exists |-> FALSE, soup |-> <<>>]

Readme(soup) == [exists |-> TRUE, soup |-> soup]

Input(is_dir, entries, readme) ==
    [is_dir |-> is_dir, entries |-> entries, readme |-> readme]

\* Kinds of directory entry: images wide and tall, images of zero width or
\* height, a file of another type, a directory named like an image.
EntryKinds ==
    { [suffix |-> ".jpg", is_file |-> TRUE, w |-> 2, h |-> 1],
      [suffix |-> ".Png", is_file |-> TRUE, w |-> 1, h |-> 3],
      [suffix |-> ".JPEG", is_file |-> TRUE, w |-> 0, h |-> 4],
      [suffix |-> ".png", is_file |-> TRUE, w |-> 3, h |-> 0],
      [suffix |-> ".txt", is_file |-> TRUE, w |-> 0, h |-> 0],
      [suffix |-> ".jpg", is_file |-> FALSE, w |-> 0, h |-> 0] }

EntriesOf(f) ==
    { Entry(n, f[n].suffix, f[n].is_file, f[n].w, f[n].h) : n \in DOMAIN f }

\* Every directory of at most MaxFiles entries of these kinds.
Directories ==
    UNION { { EntriesOf(f) : f \in [S -> EntryKinds] } : S \in SUBSET (1..MaxFiles) }

H1(ch) == Tag("h1", ch)

P(ch) == Tag("p", ch)

Li(ch) == Tag("li", ch)

T(c) == Text(<<c>>)

\* "# Title\n\nSome **bold** text." as markdown and BeautifulSoup give it.
TitleSoup ==
    << H1(<<Text(<<"T", "i", "t", "l", "e">>)>>), T("\n"),
       P(<<Text(<<"S", "o", "m", "e", " ">>),
           Tag("strong", <<Text(<<"b", "o", "l", "d">>)>>),
           Text(<<" ", "t", "e", "x", "t", ".">>)>>) >>

\* The README files of the runs over many directories: an empty file, a
\* blank one, the titled one, a horizontal rule.
FewSoups == { <<>>, <<T("\n")>>, TitleSoup, <<Tag("hr", <<>>)>> }

Hrefs == { <<>>, <<"u">>, <<"u", "&", "v">>, <<"u", "\"", "v">> }

InlineNodes ==
    { Text(t) : t \in { <<"a">>, <<"a", "&", "b">>, <<"<">>, <<" ">> } }
    \cup { Tag(n, <<Text(t)>>) : n \in {"strong", "em", "code", "span"},
                                 t \in { <<"b">>, <<">">> } }
    \cup { Link(h, <<T("c")>>) : h \in Hrefs }
    \cup { Tag("br", <<>>),
           Tag("b", <<T("b"), Tag("i", <<T("c")>>)>>),
           Tag("span", <<T("b"), Tag("em", <<T("<")>>)>>) }

InlineBlocks ==
    { Tag(n, <<x>>) : n \in {"p", "h1", "h5"}, x \in InlineNodes }
    \cup { P(<<T("d"), x>>) : x \in InlineNodes }

\* The children of a list: the newline markdown puts between items, plain
\* items, an item holding a nested list.
ListKids ==
    { T("\n"), Li(<<T("a")>>), Li(<<T("b")>>),
      Li(<<T("c"), Tag("ol", <<Li(<<T("d")>>), T("\n"), Li(<<T("e")>>)>>)>>) }

RECURSIVE SeqsUpTo(_, _)
SeqsUpTo(S, n) ==
    IF n = 0 THEN { <<>> }
    ELSE LET shorter == SeqsUpTo(S, n - 1)
         IN  shorter \cup { Append(q, x) : q \in shorter, x \in S }

ListBlocks ==
    { Tag(l, ch) : l \in {"ul", "ol"}, ch \in SeqsUpTo(ListKids, MaxKids) \ { <<>> } }

OtherBlocks ==
    { Tag("hr", <<>>),
      Li(<<T("a")>>),
      Tag("pre", <<Tag("code", <<Text(<<"a", "<", "b">>)>>)>>),
      Tag("pre", <<T("a")>>),
      Tag("pre", <<T("a"), Tag("code", <<T("b")>>)>>),
      Tag("code", <<Text(<<"a", "&">>)>>),
      Tag("blockquote", <<T("\n"), P(<<T("a")>>), T("\n"), P(<<T("b")>>)>>),
      Tag("blockquote", <<T("a"), P(<<T(" ")>>)>>),
      Tag("table", <<Tag("tr", <<Tag("th", <<T("a")>>), Tag("td", <<T("b")>>)>>),
                     Tag("tr", <<Tag("td", <<Text(<<" ", "c", "<", " ">>)>>)>>)>>),
      Tag("table", <<Tag("caption", <<T("a")>>),
                     Tag("tr", <<Tag("td", <<T("b")>>)>>)>>),
      Tag("div", <<T("a")>>),
      Tag("div", <<P(<<T("a")>>), T("b")>>),
      Tag("div", <<Tag("code", <<T("a")>>)>>),
      Tag("section", <<Tag("div", <<H1(<<T("a")>>), Tag("span", <<T("b")>>)>>)>>),
      Tag("p", <<>>),
      Tag("ul", <<>>) }

Blocks == InlineBlocks \cup ListBlocks \cup OtherBlocks

\* README trees of one block, and of two with the newline between them.
ManySoups ==
    { <<b>> : b \in Blocks }
    \cup { <<b, T("\n"), c>> : b \in OtherBlocks, c \in OtherBlocks }

OneImage == { Entry(1, ".jpg", TRUE, 2, 1) }

\* One image of every size up to MaxPx, and the sizes of the scenarios.
ImageSizes ==
    ((0..MaxPx) \X (0..MaxPx)) \cup { <<1000, 500>>, <<100, 1000>> }

Inputs ==
    { Input(FALSE, {}, NoReadme) }
    \cup { Input(TRUE, d, r) : d \in Directories,
                               r \in {NoReadme} \cup { Readme(q) : q \in FewSoups } }
    \cup { Input(TRUE, OneImage, Readme(q)) : q \in ManySoups }
    \cup { Input(TRUE, { Entry(1, ".png", TRUE, z[1], z[2]) }, NoReadme) :
              z \in ImageSizes }

Init ==
    /\ subdir \in Inputs
    /\ pc = "start"
    /\ exit = "none"
    /\ image_paths = <<>>
    /\ story = <<>>
    /\ k = 1
    /\ readme_pdf = <<>>
    /\ i = 1
    /\ written = 0
    /\ canvas = <<>>
    /\ images_pdf = <<>>
    /\ parts = <<>>
    /\ output = <<>>
    /\ output_written = FALSE
    /\ total_pages = -1

Next ==
    \/ NotADirectory
    \/ NoImages
    \/ FoundImages
    \/ ReadmeAbsent
    \/ ReadmeBegin
    \/ TranslateChild
    \/ BuildReadme
    \/ SkipImage
    \/ PlaceImage
    \/ ImagesDone
    \/ NothingToWrite
    \/ WriteOutput

Spec == Init /\ [][Next]_vars

---------------------------------------------------------------------------
(* Vocabulary of the properties.                                           *)

\* The images of the directory that get a page: eligible, of non-zero size.
PlacedStems ==
    { p.stem : p \in { q \in subdir.entries :
                         /\ q.is_file
                         /\ Lower(q.suffix) \in {".jpg", ".jpeg", ".png"}
                         /\ q.w > 0 /\ q.h > 0 } }

NoEligibleImages ==
    /\ subdir.is_dir
    /\ \A p \in subdir.entries :
          ~(p.is_file /\ Lower(p.suffix) \in {".jpg", ".jpeg", ".png"})

\* The README exists and its tree translates to at least one flowable.
ReadmeHasBlock ==
    /\ subdir.readme.exists
    /\ Recurse(subdir.readme.soup, "[document]", 0) # <<>>

\* The run got to the assembly step (or past it).
ReachedAssembly ==
    pc = "assemble" \/ (pc = "done" /\ exit \in {"nothing_to_write", "written"})

\* The README was translated in full.
Translated ==
    /\ subdir.readme.exists
    /\ pc = "images" \/ ReachedAssembly

EntryOf(stem) == CHOOSE e \in subdir.entries : e.stem = stem

\* The rational a is the fraction n / d.
IsFrac(a, n, d) == a.n * d = n * a.d

Contains(s, t) ==
    \E a \in 0..(Len(s) - Len(t)) : SubSeq(s, a + 1, a + Len(t)) = t

RECURSIVE Count(_, _)
Count(s, c) ==
    IF s = <<>> THEN 0
    ELSE (IF Head(s) = c THEN 1 ELSE 0) + Count(Tail(s), c)

RECURSIVE CountAll(_, _)
CountAll(blocks, c) ==
    IF blocks = <<>> THEN 0
    ELSE Count(Head(blocks).text, c) + CountAll(Tail(blocks), c)

\* The text nodes of the README tree, as a sequence in document order.
TextLeaves == SelectSeq(DescendantsAll(subdir.readme.soup), IsStr)

\* Every text node is one letter or blank, and no letter occurs twice.
DistinctLeaves ==
    /\ \A j \in DOMAIN TextLeaves :
          Len(TextLeaves[j].text) = 1
          /\ TextLeaves[j].text[1] \in {"a", "b", "c", "d", "e", "\n", " "}
    /\ \A j, l \in DOMAIN TextLeaves :
          (j # l /\ TextLeaves[j].text[1] \notin Whitespace)
              => TextLeaves[j].text # TextLeaves[l].text

\* The atoms of a list item's text before and after the "  " the program
\* puts between bullet and text.
RECURSIVE BulletOf(_)
BulletOf(text) ==
    IF text = <<>> \/ Head(text) = "  " THEN <<>>
    ELSE <<Head(text)>> \o BulletOf(Tail(text))

BodyOf(text) == SubSeq(text, Len(BulletOf(text)) + 2, Len(text))

IsList(node) == node.name \in {"ul", "ol"}

IsItem(node) == node.name = "li"

NotList(node) == ~IsList(node)

\* What the lists of a sequence of nodes should emit: for the k-th item
\* (from 0) of a list its bullet ("k." in an ordered list) and its own inline
\* text, then the same for the lists nested in the item.
RECURSIVE ExpectedItems(_, _), ExpectedLists(_)
ExpectedItems(tag, items) ==
    [ bullets |->
        LET f[j \in 0..Len(items)] ==
              IF j = 0 THEN <<>>
              ELSE f[j - 1]
                     \o << IF tag = "ul" THEN <<Bullet>> ELSE OrdinalBullet(j - 1) >>
                     \o ExpectedLists(items[j].children).bullets
        IN  f[Len(items)],
      bodies |->
        LET g[j \in 0..Len(items)] ==
              IF j = 0 THEN <<>>
              ELSE g[j - 1]
                     \o << inline_parts(SelectSeq(items[j].children, NotList)) >>
                     \o ExpectedLists(items[j].children).bodies
        IN  g[Len(items)] ]

ExpectedLists(nodes) ==
    IF nodes = <<>> THEN [bullets |-> <<>>, bodies |-> <<>>]
    ELSE LET rest == ExpectedLists(Tail(nodes))
             here == IF IsList(Head(nodes))
                     THEN ExpectedItems(Head(nodes).name,
                                        SelectSeq(Head(nodes).children, IsItem))
                     ELSE [bullets |-> <<>>, bodies |-> <<>>]
         IN  [bullets |-> here.bullets \o rest.bullets,
              bodies |-> here.bodies \o rest.bodies]

\* The README is one list and nothing else.
OneListSoup ==
    /\ Len(subdir.readme.soup) = 1
    /\ IsList(subdir.readme.soup[1])

LinkOpen == "<link href=\""

LinkMid == "\" color=\"blue\">"

\* Position j of a markup string lies in the href attribute of a link.
InHref(text, j) ==
    \E a \in 1..(j - 1) :
        text[a] = LinkOpen /\ \A b \in (a + 1)..(j - 1) : text[b] # LinkMid

---------------------------------------------------------------------------
(* The properties.                                                         *)

\* C1: the written document is the README's pages, all of them in their own
\* order, and then one page for each placed image in ascending order of the
\* image paths: nothing before the README, nothing dropped, doubled or moved.
C1_MergeOrder ==
    output_written =>
        LET n == Len(readme_pdf)
            m == Len(output)
        IN  /\ n <= m
            /\ SubSeq(output, 1, n) = readme_pdf
            /\ \A j \in 1..n : output[j].src = "readme" /\ output[j].path = j
            /\ \A j \in (n + 1)..m : output[j].src = "image"
            /\ \A j, l \in (n + 1)..m :
                  j < l => output[j].path < output[l].path
            /\ { output[j].path : j \in (n + 1)..m } = PlacedStems

C1_Witness ==
    /\ output_written
    /\ Len(readme_pdf) = 2
    /\ Len(output) = 4

\* C2 as claimed: a directory with a README that has content and with no
\* eligible image ends with the README translated and a document of at least
\* one page, none of them an image page.
C2_ReadmeOnlyWritten ==
    (NoEligibleImages /\ ReadmeHasBlock /\ pc = "done") =>
        /\ story # <<>>
        /\ output_written
        /\ Len(output) >= 1
        /\ \A j \in DOMAIN output : output[j].src # "image"

\* C2 as amended: a directory with a README that has content and with no
\* eligible image ends in the "no images" error, before the README is
\* translated, and no document is written.
C2_NoImagesIsFatal ==
    (NoEligibleImages /\ ReadmeHasBlock) =>
        /\ pc \in {"start", "done"}
        /\ pc = "done" => exit = "no_images"
        /\ story = <<>>
        /\ readme_pdf = <<>>
        /\ ~output_written

C2_Witness ==
    /\ NoEligibleImages
    /\ ReadmeHasBlock
    /\ subdir.entries # {}
    /\ pc = "done"
    /\ exit = "no_images"

\* C3: a run that reaches the assembly step ends in "nothing to write", with
\* no file, exactly when the README page set and the image page set are both
\* empty; every other such run writes the document and reports the sum of
\* the two page counts.
C3_NothingToWriteIff ==
    (pc = "done" /\ ReachedAssembly) =>
        /\ (exit = "nothing_to_write" /\ ~output_written)
              <=> (Len(readme_pdf) = 0 /\ Len(images_pdf) = 0)
        /\ exit # "nothing_to_write" =>
              /\ output_written
              /\ total_pages = Len(readme_pdf) + Len(images_pdf)

\* C4: images_to_pdf makes one page for every image of non-zero width and
\* height and none for the others, in the order of its input; an image of
\* zero size does not end the loop, and with no image placed the result is
\* the empty page set.
C4_OnePagePerValidImage ==
    LET nonzero(p) == p.w > 0 /\ p.h > 0
        seen == IF pc = "images" THEN i - 1 ELSE Len(image_paths)
        valid == SelectSeq(SubSeq(image_paths, 1, seen), nonzero)
        pages == IF pc = "images" THEN canvas ELSE images_pdf
    IN  (pc = "images" \/ ReachedAssembly) =>
            /\ Len(pages) = Len(valid)
            /\ \A j \in DOMAIN pages :
                  pages[j].src = "image" /\ pages[j].path = valid[j].stem
            /\ pc = "images" => written = Len(valid)

C4_Witness ==
    /\ pc = "assemble"
    /\ Len(image_paths) = 2
    /\ image_paths[1].w = 0
    /\ Len(images_pdf) = 1
    /\ images_pdf[1].path = image_paths[2].stem

\* C5: an image of W x H pixels is fitted by width when H/W <= CONTENT_H /
\* CONTENT_W (width CONTENT_W, height CONTENT_W*H/W) and by height otherwise
\* (height CONTENT_H, width CONTENT_H*W/H); either way it is no larger than
\* the content box and keeps its aspect ratio.  1000x500 gives 504x252 and
\* 100x1000 gives 68.4x684.
C5_FitToBox ==
    \A j \in DOMAIN canvas :
        LET pg == canvas[j]
            W == EntryOf(pg.path).w
            H == EntryOf(pg.path).h
        IN  /\ W > 0 /\ H > 0
            /\ IF H * CONTENT_W <= CONTENT_H * W
               THEN IsFrac(pg.w, CONTENT_W, 1) /\ IsFrac(pg.h, CONTENT_W * H, W)
               ELSE IsFrac(pg.h, CONTENT_H, 1) /\ IsFrac(pg.w, CONTENT_H * W, H)
            /\ pg.w.n <= CONTENT_W * pg.w.d
            /\ pg.h.n <= CONTENT_H * pg.h.d
            /\ pg.w.d > 0 /\ pg.h.d > 0 /\ pg.w.n > 0
            /\ pg.h.n * pg.w.d * W = H * pg.w.n * pg.h.d
            /\ (W = 1000 /\ H = 500) =>
                  IsFrac(pg.w, 504, 1) /\ IsFrac(pg.h, 252, 1)
            /\ (W = 100 /\ H = 1000) =>
                  IsFrac(pg.w, 684, 10) /\ IsFrac(pg.h, 684, 1)

C5_Witness ==
    /\ Len(canvas) = 1
    /\ EntryOf(canvas[1].path).w = 100
    /\ EntryOf(canvas[1].path).h = 1000
    /\ canvas[1].h = RInt(CONTENT_H)

\* C6: a placed image lies inside the content box, its top edge on the top
\* of the box, with equal room to its left and to its right.
C6_InsideContentBox ==
    \A j \in DOMAIN canvas :
        LET pg == canvas[j]
            right == RAdd(pg.x, pg.w)
            top == RAdd(pg.y, pg.h)
        IN  /\ RLe(RInt(MARGIN), pg.x)
            /\ RLe(right, RInt(PAGE_W - MARGIN))
            /\ RLe(RInt(MARGIN), pg.y)
            /\ REq(top, RInt(PAGE_H - MARGIN))
            /\ REq(RSub(pg.x, RInt(MARGIN)), RSub(RInt(PAGE_W - MARGIN), right))

C6_Witness ==
    /\ Len(canvas) = 1
    /\ RLt(canvas[1].w, RInt(CONTENT_W))
    /\ RLt(RInt(MARGIN), canvas[1].x)
    /\ canvas[1].y = RInt(MARGIN)

\* C7: a list emits its items in document order, the k-th item (from 0,
\* counting the items only) of an ordered list with the bullet "k." and
\* every item of an unordered list with the bullet character, whatever
\* other children sit before or between the items.
C7_OrdinalsCountItems ==
    (Translated /\ OneListSoup) =>
        /\ \A j \in DOMAIN story : story[j].style = "li"
        /\ [j \in DOMAIN story |-> BulletOf(story[j].text)]
              = ExpectedLists(subdir.readme.soup).bullets

\* C8: no text is lost: every text node that is not blank appears in the
\* text of some flowable of the story.
C8_NoTextLost ==
    Translated =>
        \A j \in DOMAIN TextLeaves :
            LET t == Strip(TextLeaves[j].text)
            IN  t # <<>> =>
                  \E b \in DOMAIN story :
                      Contains(story[b].text, _escape(t))
                      \/ Contains(story[b].text, t)

\* C9: no text is emitted twice: a text node gives its text to at most one
\* flowable; the flowable of an item holding a nested list carries the
\* item's own inline text only, and the nested items follow in flowables of
\* their own, before the next sibling item.
C9_NoTextTwice ==
    (Translated /\ DistinctLeaves) =>
        /\ \A j \in DOMAIN TextLeaves :
              TextLeaves[j].text[1] \notin Whitespace =>
                  CountAll(story, TextLeaves[j].text[1]) <= 1
        /\ OneListSoup =>
              [j \in DOMAIN story |-> BodyOf(story[j].text)]
                  = ExpectedLists(subdir.readme.soup).bodies

\* C10: a composed markup string holds no raw "&", "<" or ">" taken from the
\* input and no raw quote inside a link's href: input text and link targets
\* arrive escaped.
C10_InlineEscaped ==
    \A b \in DOMAIN story :
        story[b].kind = "Paragraph" =>
            \A j \in DOMAIN story[b].text :
                /\ story[b].text[j] \notin {"&", "<", ">"}
                /\ story[b].text[j] = "\"" => ~InHref(story[b].text, j)

===========================================================================
